---- MODULE Spec2Model ----
(***************************************************************************)
(* Model of the components of the Vue cookbook:                            *)
(*   - BasePagination.paginationTriggers, the computed property that       *)
(*     decides which page numbers are rendered as triggers;                *)
(*   - ArticlesList, the component that holds currentPage, pageCount and   *)
(*     articles, fetches page 1 when mounted and a page per page change;   *)
(*   - LazyLoadDirective, which sets an img's src once an                  *)
(*     IntersectionObserver reports the bound element as intersecting;     *)
(*   - the infinite scroll's ArticlesList (loadMore) and its Trigger;      *)
(*   - ChaptersList, the site's chapter list with its type filter and      *)
(*     title search.                                                       *)
(*                                                                         *)
(* JavaScript numbers that occur in paginationTriggers are multiples of    *)
(* one half ((visiblePagesCount - 1) / 2 is not an integer for an even     *)
(* visiblePagesCount).  Inside the computation a number n is therefore     *)
(* represented by the integer 2n ("half units").  The state keeps the      *)
(* returned array as two sequences: triggers (the integer parts) and       *)
(* fraction (0, or 1 for an entry with a trailing .5).                     *)
(***************************************************************************)
EXTENDS Integers, Sequences, FiniteSets

VARIABLES
    currentPage,        \* ArticlesList.data.currentPage / BasePagination prop
    pageCount,          \* ArticlesList.data.pageCount   / BasePagination prop
    visiblePagesCount,  \* BasePagination prop
    articles,           \* ArticlesList.data.articles (sequence of article ids)
    mounted,            \* state of the mounted hook's request
    requests,           \* pages requested by pageChangeHandle, not yet answered
    triggers,           \* array returned by paginationTriggers, integer parts
    fraction,           \* the same array, 1 where the entry ends in .5
    outcome,            \* how the last evaluation of paginationTriggers ended
    buttons,            \* rendered disabled attributes of the two BaseButtons
    totalResults,       \* data.totalResults of the latest response
    failed,             \* a request issued by pageChangeHandle has failed
    \* IntersectionObserver of the lazy-load directive / the Trigger component
    observer,           \* "null", "observing", "unobserved" or "disconnected"
    visible,            \* whether the observed element intersects the root
    reported,           \* the last entry queued: "none", "in" or "out"
    queue,              \* entries queued for the next callback (isIntersecting)
    scrolls,            \* visibility changes so far
    entered,            \* intersecting entries handed to the callback so far
    \* lazy-load directive
    hasObserver,        \* window["IntersectionObserver"] is defined
    hasImage,           \* the bound element has an IMG child
    inserted,           \* the directive's inserted hook has run
    src,                \* the img's src: "unset" or "data-url"
    loadCalls,          \* number of times loadImage has run
    \* infinite scroll
    page,               \* ArticlesList.data.page
    rejected,           \* pages whose request failed
    emitted,            \* triggerIntersected events emitted by the Trigger
    destroyed,          \* the Trigger component has been destroyed
    \* ChaptersList
    chapters,           \* the chapters prop: records [id, title, type]
    search,             \* data.search, the text of the search input
    selectedChapterTypes, \* data.selectedChapterTypes
    toggledOdd          \* the types toggled an odd number of times so far

paginationVars == <<currentPage, pageCount, visiblePagesCount, triggers,
                    fraction, outcome, buttons, totalResults, failed>>
listVars == <<articles, mounted, requests>>
observerVars == <<observer, visible, reported, queue, scrolls, entered>>
lazyVars == <<hasObserver, hasImage, inserted, src, loadCalls>>
scrollVars == <<page, rejected, emitted, destroyed>>
chapterVars == <<chapters, search, selectedChapterTypes, toggledOdd>>

vars == <<paginationVars, listVars, observerVars, lazyVars, scrollVars,
          chapterVars>>

---------------------------------------------------------------------------
(* Bounds of the model. *)

\* largest pageCount / currentPage argument of a direct evaluation
MaxPageCount == 18
\* largest visiblePagesCount argument of a direct evaluation
MaxVisiblePagesCount == 7
\* arguments of a direct evaluation start this far below zero
ArgSlack == 1
\* largest data.totalResults the API answers with
MaxTotalResults == 5
\* currentPage of the component is kept within -PageSlack .. MaxPages + PageSlack
PageSlack == 0
\* most page-change requests outstanding at once
MaxInFlight == 2
\* most visibility changes of an observed element
MaxScrolls == 4
\* most entries queued for one IntersectionObserver callback
MaxEntries == 3
\* longest chapters list handed to ChaptersList
MaxChapters == 4

(* Program constants. *)

\* ArticlesList $options.static.visibleItemsPerPageCount
visibleItemsPerPageCount == 2
\* BasePagination props.visiblePagesCount.default
DefaultVisiblePagesCount == 5
\* pageSize of the infinite scroll's requests
scrollPageSize == 3

\* totalResults before any response has arrived
NoResponse == 0 - 1

(* Values of the variables of a component that is not part of a run. *)

IdleButtons == buttons = [previous |-> FALSE, next |-> FALSE]

IdlePagination ==
    /\ currentPage = 1
    /\ pageCount = 0
    /\ visiblePagesCount = DefaultVisiblePagesCount
    /\ triggers = <<>>
    /\ fraction = <<>>
    /\ outcome = "pending"
    /\ IdleButtons
    /\ totalResults = NoResponse
    /\ failed = FALSE

IdleList ==
    /\ articles = <<>>
    /\ mounted = "none"
    /\ requests = <<>>

IdleObserver ==
    /\ observer = "null"
    /\ visible = FALSE
    /\ reported = "none"
    /\ queue = <<>>
    /\ scrolls = 0
    /\ entered = 0

IdleLazy ==
    /\ hasObserver = FALSE
    /\ hasImage = FALSE
    /\ inserted = FALSE
    /\ src = "unset"
    /\ loadCalls = 0

IdleScroll ==
    /\ page = 1
    /\ rejected = {}
    /\ emitted = 0
    /\ destroyed = FALSE

IdleChapters ==
    /\ chapters = <<>>
    /\ search = <<>>
    /\ selectedChapterTypes = <<>>
    /\ toggledOdd = {}

---------------------------------------------------------------------------
(* Numbers in half units. *)

Num(n) == 2 * n
Whole(x) == x \div 2
Frac(x) == x % 2

Reverse(s) == [i \in 1..Len(s) |-> s[Len(s) + 1 - i]]

---------------------------------------------------------------------------
(* BasePagination.paginationTriggers *)

\* the threshold rounded up instead of down: (visiblePagesCount + 1) / 2
thresholdRoundedUp(v) == v + 1

\* visiblePagesThreshold = (visiblePagesCount - 1) / 2, in half units
visiblePagesThreshold(v) == v - 1

\* an Array constructor that rejects the empty length as well
ArrayThrowsOnEmpty(v) == v - 1 <= 0

\* Array(visiblePagesCount - 1) throws a RangeError for a negative length
ArrayThrows(v) == v - 1 < 0

\* Array(visiblePagesCount - 1).fill(0)
pagintationTriggersArray(v) == [i \in 1..(v - 1) |-> 0]

\* array[0] = first: overwrites index 0, and gives an empty array length 1
SetFirst(array, first) ==
    IF Len(array) = 0 THEN <<first>>
    ELSE [array EXCEPT ![1] = first]

\* if (currentPage <= visiblePagesThreshold + 1)
isScenario1(cp, v) == Num(cp) <= visiblePagesThreshold(v) + Num(1)

\* if (currentPage >= pageCount - visiblePagesThreshold + 1)
isScenario2(cp, pc, v) ==
    Num(cp) >= Num(pc) - visiblePagesThreshold(v) + Num(1)

\* scenario 1 with the array starting at index instead of 1 + index
scenario1FromZero(pc, v) ==
    LET array == SetFirst(pagintationTriggersArray(v), Num(1))
        mapped == [i \in 1..Len(array) |-> Num(i - 1)]
    IN  Append(mapped, Num(pc))

\* scenario 1: 1, 2, ... then pageCount pushed
scenario1(pc, v) ==
    LET array == SetFirst(pagintationTriggersArray(v), Num(1))
        mapped == [i \in 1..Len(array) |-> array[1] + Num(i - 1)]
    IN  Append(mapped, Num(pc))

\* scenario 2 without the reverse()
scenario2NoReverse(pc, v) ==
    LET array == pagintationTriggersArray(v)
        mapped == [i \in 1..Len(array) |-> Num(pc) - Num(i - 1)]
    IN  <<Num(1)>> \o mapped

\* scenario 2 counting the index from 1: pageCount - (index + 1)
scenario2IndexFromOne(pc, v) ==
    LET array == pagintationTriggersArray(v)
        mapped == [i \in 1..Len(array) |-> Num(pc) - Num(i)]
    IN  <<Num(1)>> \o Reverse(mapped)

\* scenario 2: pageCount - index, reversed, 1 unshifted
scenario2(pc, v) ==
    LET array == pagintationTriggersArray(v)
        mapped == [i \in 1..Len(array) |-> Num(pc) - Num(i - 1)]
    IN  <<Num(1)>> \o Reverse(mapped)

\* scenario 3 with the window starting after currentPage (threshold dropped)
scenario3WindowAfterCurrent(cp, pc, v) ==
    LET first == Num(cp) + Num(1)
        array == SetFirst(pagintationTriggersArray(v), first)
        mapped == [i \in 1..Len(array) |-> array[1] + Num(i - 1)]
        unshifted == <<Num(1)>> \o mapped
    IN  [unshifted EXCEPT ![Len(unshifted)] = Num(pc)]

\* scenario 3 pushing pageCount instead of overwriting the last entry
scenario3PushLast(cp, pc, v) ==
    LET first == Num(cp) - (v - 1) + Num(1)
        array == SetFirst(pagintationTriggersArray(v), first)
        mapped == [i \in 1..Len(array) |-> array[1] + Num(i - 1)]
        unshifted == <<Num(1)>> \o mapped
    IN  Append(unshifted, Num(pc))

\* scenario 3 without the overwrite of the last entry
scenario3KeepsLast(cp, pc, v) ==
    LET first == Num(cp) - (v - 1) + Num(1)
        array == SetFirst(pagintationTriggersArray(v), first)
        mapped == [i \in 1..Len(array) |-> array[1] + Num(i - 1)]
    IN  <<Num(1)>> \o mapped

\* scenario 3 with the window starting at currentPage - threshold
scenario3WindowFromThreshold(cp, pc, v) ==
    LET first == Num(cp) - (v - 1)
        array == SetFirst(pagintationTriggersArray(v), first)
        mapped == [i \in 1..Len(array) |-> array[1] + Num(i - 1)]
        unshifted == <<Num(1)>> \o mapped
    IN  [unshifted EXCEPT ![Len(unshifted)] = Num(pc)]

\* scenario 3: window from currentPage - threshold + 1, 1 unshifted,
\* last entry overwritten with pageCount
scenario3(cp, pc, v) ==
    LET first == Num(cp) - visiblePagesThreshold(v) + Num(1)
        array == SetFirst(pagintationTriggersArray(v), first)
        mapped == [i \in 1..Len(array) |-> array[1] + Num(i - 1)]
        unshifted == <<Num(1)>> \o mapped
    IN  [unshifted EXCEPT ![Len(unshifted)] = Num(pc)]

\* the array paginationTriggers returns, in half units
paginationTriggers(cp, pc, v) ==
    IF isScenario1(cp, v) THEN scenario1(pc, v)
    ELSE IF isScenario2(cp, pc, v) THEN scenario2(pc, v)
    ELSE scenario3(cp, pc, v)

WholeParts(s) == [i \in 1..Len(s) |-> Whole(s[i])]
FracParts(s) == [i \in 1..Len(s) |-> Frac(s[i])]

\* the evaluation of the computed property: the values of triggers, fraction
\* and outcome it leaves
Evaluated(cp, pc, v) ==
    IF ArrayThrows(v)
    THEN [triggers |-> <<>>, fraction |-> <<>>, outcome |-> "RangeError"]
    ELSE [triggers |-> WholeParts(paginationTriggers(cp, pc, v)),
          fraction |-> FracParts(paginationTriggers(cp, pc, v)),
          outcome |-> "returned"]

---------------------------------------------------------------------------
(* Direct evaluations of paginationTriggers on arbitrary arguments. *)

ArgPages == (0 - ArgSlack)..(MaxPageCount + 1)
ArgCounts == (0 - ArgSlack)..MaxPageCount
ArgVisible == (0 - ArgSlack)..MaxVisiblePagesCount

InitArgs ==
    /\ currentPage \in ArgPages
    /\ pageCount \in ArgCounts
    /\ visiblePagesCount \in ArgVisible
    /\ articles = <<>>
    /\ mounted = "none"
    /\ requests = <<>>
    /\ triggers = <<>>
    /\ fraction = <<>>
    /\ outcome = "pending"
    /\ IdleButtons
    /\ totalResults = NoResponse
    /\ failed = FALSE
    /\ IdleObserver /\ IdleLazy /\ IdleScroll /\ IdleChapters

Evaluate ==
    /\ outcome = "pending"
    /\ LET r == Evaluated(currentPage, pageCount, visiblePagesCount)
       IN  /\ triggers' = r.triggers
           /\ fraction' = r.fraction
           /\ outcome' = r.outcome
    /\ UNCHANGED <<currentPage, pageCount, visiblePagesCount, articles,
                   mounted, requests, buttons, totalResults, failed>>
    /\ UNCHANGED <<observerVars, lazyVars, scrollVars, chapterVars>>

NextArgs == Evaluate

SpecArgs == InitArgs /\ [][NextArgs]_vars

---------------------------------------------------------------------------
(* ArticlesList with its BasePagination child. *)

\* data.articles of the response for page p when the API holds `total` results
PageArticles(p, total) ==
    LET first == (p - 1) * visibleItemsPerPageCount + 1
        last == IF p * visibleItemsPerPageCount < total
                THEN p * visibleItemsPerPageCount ELSE total
    IN  IF p < 1 \/ first > last THEN <<>>
        ELSE [i \in 1..(last - first + 1) |-> first + i - 1]

\* Math.ceil(data.totalResults / visibleItemsPerPageCount)
PageCountOf(total) ==
    (total + visibleItemsPerPageCount - 1) \div visibleItemsPerPageCount

\* BasePagination.isPreviousButtonDisabled
isPreviousButtonDisabled == currentPage = 1

\* "next" disabled on and past the last page
isNextButtonDisabledFromLast == currentPage >= pageCount

\* BasePagination.isNextButtonDisabled
isNextButtonDisabled == currentPage = pageCount

\* the re-render that follows a change of currentPage or pageCount: the
\* triggers and the :disabled bindings of the two buttons, from the new state
Render(cp, pc) ==
    LET r == Evaluated(cp, pc, visiblePagesCount)
    IN  /\ triggers' = r.triggers
        /\ fraction' = r.fraction
        /\ outcome' = r.outcome
        /\ buttons' = [previous |-> isPreviousButtonDisabled',
                       next |-> isNextButtonDisabled']

\* values of the visiblePagesCount prop the pagination is mounted with
VisibleProps == {3, DefaultVisiblePagesCount}

MaxPages == PageCountOf(MaxTotalResults)
PageRange == (0 - PageSlack)..(MaxPages + PageSlack)

\* ArticlesList.data() and the first render
Init ==
    /\ currentPage = 1
    /\ pageCount = 0
    /\ visiblePagesCount \in VisibleProps
    /\ articles = <<>>
    /\ mounted = "pending"
    /\ requests = <<>>
    /\ triggers = Evaluated(1, 0, visiblePagesCount).triggers
    /\ fraction = Evaluated(1, 0, visiblePagesCount).fraction
    /\ outcome = Evaluated(1, 0, visiblePagesCount).outcome
    /\ buttons = [previous |-> isPreviousButtonDisabled,
                  next |-> isNextButtonDisabled]
    /\ totalResults = NoResponse
    /\ failed = FALSE
    /\ IdleObserver /\ IdleLazy /\ IdleScroll /\ IdleChapters

\* mounted(): the request for page 1 is answered
MountedResolve(total) ==
    /\ mounted = "pending"
    /\ mounted' = "loaded"
    /\ articles' = PageArticles(1, total)
    /\ pageCount' = PageCountOf(total)
    /\ totalResults' = total
    /\ UNCHANGED <<currentPage, visiblePagesCount, requests, failed>>
    /\ UNCHANGED <<observerVars, lazyVars, scrollVars, chapterVars>>
    /\ Render(currentPage, PageCountOf(total))

\* mounted(): the request for page 1 fails, the error is rethrown
MountedReject ==
    /\ mounted = "pending"
    /\ mounted' = "failed"
    /\ UNCHANGED <<currentPage, pageCount, visiblePagesCount, articles,
                   requests, triggers, fraction, outcome, buttons,
                   totalResults, failed>>
    /\ UNCHANGED <<observerVars, lazyVars, scrollVars, chapterVars>>

\* a pageChangeHandle that issues its request before it assigns currentPage
pageChangeHandleRequestFirst(label, value) ==
    LET newPage == CASE label = "next" -> currentPage + 1
                  [] label = "previous" -> currentPage - 1
                  [] OTHER -> value
    IN  /\ newPage \in PageRange
        /\ Len(requests) < MaxInFlight
        /\ currentPage' = newPage
        /\ requests' = Append(requests, currentPage)
        /\ UNCHANGED <<pageCount, visiblePagesCount, articles, mounted,
                       totalResults, failed>>
        /\ UNCHANGED <<observerVars, lazyVars, scrollVars, chapterVars>>
        /\ Render(newPage, pageCount)

\* pageChangeHandle(value) up to its await: currentPage is set, the request
\* for it is issued.  label is the switch case value falls in ("next",
\* "previous" or "default"); value is read in the default case only.
pageChangeHandle(label, value) ==
    LET newPage == CASE label = "next" -> currentPage + 1
                  [] label = "previous" -> currentPage - 1
                  [] OTHER -> value
    IN  /\ newPage \in PageRange
        /\ Len(requests) < MaxInFlight
        /\ currentPage' = newPage
        /\ requests' = Append(requests, newPage)
        /\ UNCHANGED <<pageCount, visiblePagesCount, articles, mounted,
                       totalResults, failed>>
        /\ UNCHANGED <<observerVars, lazyVars, scrollVars, chapterVars>>
        /\ Render(newPage, pageCount)

\* click on the enabled "next" button: @nextPage="pageChangeHandle('next')"
ClickNext ==
    /\ ~buttons.next
    /\ pageChangeHandle("next", 0)

\* click on the enabled "previous" button
ClickPrevious ==
    /\ ~buttons.previous
    /\ pageChangeHandle("previous", 0)

\* click on a rendered BasePaginationTrigger: @loadPage="pageChangeHandle"
ClickTrigger(i) ==
    /\ i \in DOMAIN triggers
    /\ fraction[i] = 0
    /\ pageChangeHandle("default", triggers[i])

RemoveAt(s, i) == [j \in 1..(Len(s) - 1) |-> IF j < i THEN s[j] ELSE s[j + 1]]

\* a pageChangeHandle that recomputes pageCount from its response as well
ChangeResolveRefreshing(i, total) ==
    /\ i \in DOMAIN requests
    /\ articles' = PageArticles(requests[i], total)
    /\ requests' = RemoveAt(requests, i)
    /\ totalResults' = total
    /\ pageCount' = PageCountOf(total)
    /\ UNCHANGED <<currentPage, visiblePagesCount, mounted, failed>>
    /\ UNCHANGED <<observerVars, lazyVars, scrollVars, chapterVars>>
    /\ Render(currentPage, PageCountOf(total))

\* pageChangeHandle after its await: the answer to request i replaces articles
ChangeResolve(i, total) ==
    /\ i \in DOMAIN requests
    /\ articles' = PageArticles(requests[i], total)
    /\ requests' = RemoveAt(requests, i)
    /\ totalResults' = total
    /\ UNCHANGED <<currentPage, pageCount, visiblePagesCount, mounted,
                   triggers, fraction, outcome, buttons, failed>>
    /\ UNCHANGED <<observerVars, lazyVars, scrollVars, chapterVars>>

\* a pageChangeHandle that empties the list when its request fails
ChangeRejectClearing(i) ==
    /\ i \in DOMAIN requests
    /\ requests' = RemoveAt(requests, i)
    /\ failed' = TRUE
    /\ articles' = <<>>
    /\ UNCHANGED <<currentPage, pageCount, visiblePagesCount,
                   mounted, triggers, fraction, outcome, buttons,
                   totalResults>>
    /\ UNCHANGED <<observerVars, lazyVars, scrollVars, chapterVars>>

\* pageChangeHandle after its await: request i fails, the promise rejects
ChangeReject(i) ==
    /\ i \in DOMAIN requests
    /\ requests' = RemoveAt(requests, i)
    /\ failed' = TRUE
    /\ UNCHANGED <<currentPage, pageCount, visiblePagesCount, articles,
                   mounted, triggers, fraction, outcome, buttons,
                   totalResults>>
    /\ UNCHANGED <<observerVars, lazyVars, scrollVars, chapterVars>>

Next ==
    \/ \E total \in 0..MaxTotalResults : MountedResolve(total)
    \/ MountedReject
    \/ ClickNext
    \/ ClickPrevious
    \/ \E i \in 1..(MaxVisiblePagesCount + 1) : ClickTrigger(i)
    \/ \E i \in 1..MaxInFlight, total \in 0..MaxTotalResults :
            ChangeResolve(i, total)
    \/ \E i \in 1..MaxInFlight : ChangeReject(i)

Spec == Init /\ [][Next]_vars

\* ArticlesList once the request of its mounted hook has been answered and
\* before any page change: page 1 is shown
InitLoaded ==
    /\ currentPage = 1
    /\ visiblePagesCount \in VisibleProps
    /\ totalResults \in 1..MaxTotalResults
    /\ pageCount = PageCountOf(totalResults)
    /\ articles = PageArticles(1, totalResults)
    /\ mounted = "loaded"
    /\ requests = <<>>
    /\ triggers = Evaluated(1, pageCount, visiblePagesCount).triggers
    /\ fraction = Evaluated(1, pageCount, visiblePagesCount).fraction
    /\ outcome = Evaluated(1, pageCount, visiblePagesCount).outcome
    /\ buttons = [previous |-> isPreviousButtonDisabled,
                  next |-> isNextButtonDisabled]
    /\ failed = FALSE
    /\ IdleObserver /\ IdleLazy /\ IdleScroll /\ IdleChapters

\* page changes of the mounted list and the answers to their requests
NextLoaded ==
    \/ ClickNext
    \/ ClickPrevious
    \/ \E i \in 1..(MaxVisiblePagesCount + 1) : ClickTrigger(i)
    \/ \E i \in 1..MaxInFlight, total \in 0..MaxTotalResults :
            ChangeResolve(i, total)
    \/ \E i \in 1..MaxInFlight : ChangeReject(i)

SpecLoaded == InitLoaded /\ [][NextLoaded]_vars

---------------------------------------------------------------------------
(* IntersectionObserver, as the browser runs it for one observed element:   *)
(* the element's visibility changes, the browser compares it with what it   *)
(* last reported and queues an entry on a change (the first observation is  *)
(* always reported), and a later task hands all queued entries to the       *)
(* callback at once.                                                         *)

Status(isIntersecting) == IF isIntersecting THEN "in" ELSE "out"

\* the number of entries with isIntersecting true
IntersectingCount(entries) ==
    Cardinality({i \in DOMAIN entries : entries[i]})

\* the observed element enters or leaves the viewport
Scroll ==
    /\ scrolls < MaxScrolls
    /\ scrolls' = scrolls + 1
    /\ visible' = ~visible
    /\ UNCHANGED <<observer, reported, queue, entered>>
    /\ UNCHANGED <<paginationVars, listVars, lazyVars, scrollVars, chapterVars>>

\* the browser's intersection update: an entry is queued when the element's
\* state differs from the last one reported
Sample ==
    /\ observer = "observing"
    /\ reported # Status(visible)
    /\ Len(queue) < MaxEntries
    /\ queue' = Append(queue, visible)
    /\ reported' = Status(visible)
    /\ UNCHANGED <<observer, visible, scrolls, entered>>
    /\ UNCHANGED <<paginationVars, listVars, lazyVars, scrollVars, chapterVars>>

---------------------------------------------------------------------------
(* LazyLoadDirective *)

\* loadImage() run n times: src is set from data-url if there is an IMG child
loadImage(n) ==
    /\ loadCalls' = loadCalls + n
    /\ src' = IF n > 0 /\ hasImage THEN "data-url" ELSE src

\* a callback that loads on every entry, intersecting or not
handleIntersectAnyEntry(entries) == Len(entries)

\* handleIntersect(entries, observer): the number of entries for which
\* loadImage() and observer.unobserve(el) run
handleIntersect(entries) == IntersectingCount(entries)

InitLazy ==
    /\ IdlePagination /\ IdleList /\ IdleScroll /\ IdleChapters
    /\ hasObserver \in BOOLEAN
    /\ hasImage \in BOOLEAN
    /\ inserted = FALSE
    /\ src = "unset"
    /\ loadCalls = 0
    /\ observer = "null"
    /\ visible \in BOOLEAN
    /\ reported = "none"
    /\ queue = <<>>
    /\ scrolls = 0
    /\ entered = 0

\* an inserted hook that only creates the observer when there is one
LazyInsertedNoFallback ==
    /\ ~inserted
    /\ inserted' = TRUE
    /\ observer' = IF hasObserver THEN "observing" ELSE observer
    /\ loadImage(0)
    /\ UNCHANGED <<hasObserver, hasImage, visible, reported, queue, scrolls,
                   entered>>
    /\ UNCHANGED <<paginationVars, listVars, scrollVars, chapterVars>>

\* inserted: createObserver() when IntersectionObserver exists, else loadImage()
LazyInserted ==
    /\ ~inserted
    /\ inserted' = TRUE
    /\ IF hasObserver
       THEN observer' = "observing" /\ loadImage(0)
       ELSE observer' = observer /\ loadImage(1)
    /\ UNCHANGED <<hasObserver, hasImage, visible, reported, queue, scrolls,
                   entered>>
    /\ UNCHANGED <<paginationVars, listVars, scrollVars, chapterVars>>

\* the observer's callback runs handleIntersect on the queued entries
LazyDeliver ==
    /\ inserted
    /\ queue # <<>>
    /\ queue' = <<>>
    /\ entered' = entered + IntersectingCount(queue)
    /\ loadImage(handleIntersect(queue))
    /\ observer' = IF handleIntersect(queue) > 0 THEN "unobserved"
                   ELSE observer
    /\ UNCHANGED <<hasObserver, hasImage, inserted, visible, reported,
                   scrolls>>
    /\ UNCHANGED <<paginationVars, listVars, scrollVars, chapterVars>>

NextLazy ==
    \/ LazyInserted
    \/ Scroll
    \/ Sample
    \/ LazyDeliver

SpecLazy == InitLazy /\ [][NextLazy]_vars

\* the inserted hook runs once the element is in the document, and the
\* browser runs the observer's callback once entries are queued
SpecLazyFair ==
    InitLazy /\ [][NextLazy]_vars /\ WF_vars(LazyInserted) /\ WF_vars(LazyDeliver)

---------------------------------------------------------------------------
(* Infinite scroll: ArticlesList with its Trigger child. *)

\* data.articles of the response for page p (the feed is taken to be stable
\* and long enough: every page is full)
ScrollPage(p) == [i \in 1..scrollPageSize |-> (p - 1) * scrollPageSize + i]

\* ArticlesList.data(), the request of its mounted hook issued, and the
\* Trigger's mounted hook run (observer created, $el observed)
InitScroll ==
    /\ IdlePagination /\ IdleLazy /\ IdleChapters
    /\ page = 1
    /\ articles = <<>>
    /\ mounted = "pending"
    /\ requests = <<>>
    /\ rejected = {}
    /\ emitted = 0
    /\ destroyed = FALSE
    /\ observer = "observing"
    /\ visible \in BOOLEAN
    /\ reported = "none"
    /\ queue = <<>>
    /\ scrolls = 0
    /\ entered = 0

\* mounted(): the request for page 1 is answered, articles is replaced
ScrollMountedResolve ==
    /\ mounted = "pending"
    /\ mounted' = "loaded"
    /\ articles' = ScrollPage(1)
    /\ UNCHANGED <<requests, page, rejected, emitted, destroyed>>
    /\ UNCHANGED <<paginationVars, observerVars, lazyVars, chapterVars>>

\* mounted(): the request for page 1 fails, the error is rethrown
ScrollMountedReject ==
    /\ mounted = "pending"
    /\ mounted' = "failed"
    /\ rejected' = rejected \cup {1}
    /\ UNCHANGED <<articles, requests, page, emitted, destroyed>>
    /\ UNCHANGED <<paginationVars, observerVars, lazyVars, chapterVars>>

\* Trigger.handleIntersect(entry): 1 if triggerIntersected is emitted, else 0
triggerHandleIntersect(entries) ==
    IF Len(entries) >= 1 /\ entries[1] THEN 1 ELSE 0

\* a loadMore that issues its request before it increments page
TriggerDeliverRequestFirst ==
    /\ queue # <<>>
    /\ queue' = <<>>
    /\ entered' = entered + IntersectingCount(queue)
    /\ emitted' = emitted + triggerHandleIntersect(queue)
    /\ IF triggerHandleIntersect(queue) = 1 /\ ~destroyed
       THEN /\ page' = page + 1
            /\ requests' = Append(requests, page)
       ELSE UNCHANGED <<page, requests>>
    /\ UNCHANGED <<articles, mounted, rejected, destroyed>>
    /\ UNCHANGED <<observer, visible, reported, scrolls>>
    /\ UNCHANGED <<paginationVars, lazyVars, chapterVars>>

\* the Trigger's observer callback, ([entry]) => this.handleIntersect(entry),
\* on the queued entries; an emitted triggerIntersected runs loadMore up to
\* its await (page incremented, request issued) while the Trigger still has
\* its listeners, i.e. until it is destroyed
TriggerDeliver ==
    /\ queue # <<>>
    /\ queue' = <<>>
    /\ entered' = entered + IntersectingCount(queue)
    /\ emitted' = emitted + triggerHandleIntersect(queue)
    /\ IF triggerHandleIntersect(queue) = 1 /\ ~destroyed
       THEN /\ page' = page + 1
            /\ requests' = Append(requests, page + 1)
       ELSE UNCHANGED <<page, requests>>
    /\ UNCHANGED <<articles, mounted, rejected, destroyed>>
    /\ UNCHANGED <<observer, visible, reported, scrolls>>
    /\ UNCHANGED <<paginationVars, lazyVars, chapterVars>>

\* loadMore after its await: the answer to request i is appended to the
\* articles held at that moment
LoadMoreResolve(i) ==
    /\ i \in DOMAIN requests
    /\ articles' = articles \o ScrollPage(requests[i])
    /\ requests' = RemoveAt(requests, i)
    /\ UNCHANGED <<mounted, page, rejected, emitted, destroyed>>
    /\ UNCHANGED <<paginationVars, observerVars, lazyVars, chapterVars>>

\* loadMore after its await: request i fails, the promise rejects
LoadMoreReject(i) ==
    /\ i \in DOMAIN requests
    /\ requests' = RemoveAt(requests, i)
    /\ rejected' = rejected \cup {requests[i]}
    /\ UNCHANGED <<articles, mounted, page, emitted, destroyed>>
    /\ UNCHANGED <<paginationVars, observerVars, lazyVars, chapterVars>>

\* Trigger.destroyed(): observer.disconnect().  Whether entries already
\* queued are still handed to the callback is left to the browser.
TriggerDestroy ==
    /\ ~destroyed
    /\ destroyed' = TRUE
    /\ observer' = "disconnected"
    /\ queue' \in {queue, <<>>}
    /\ UNCHANGED <<visible, reported, scrolls, entered>>
    /\ UNCHANGED <<articles, mounted, requests, page, rejected, emitted>>
    /\ UNCHANGED <<paginationVars, lazyVars, chapterVars>>

NextScroll ==
    \/ ScrollMountedResolve
    \/ ScrollMountedReject
    \/ Scroll
    \/ Sample
    \/ TriggerDeliver
    \/ \E i \in 1..MaxScrolls : LoadMoreResolve(i)
    \/ \E i \in 1..MaxScrolls : LoadMoreReject(i)
    \/ TriggerDestroy

SpecScroll == InitScroll /\ [][NextScroll]_vars

\* the list once the request of its mounted hook has been answered and before
\* the Trigger has emitted anything: page 1 is shown
InitScrollLoaded ==
    /\ IdlePagination /\ IdleLazy /\ IdleChapters
    /\ page = 1
    /\ articles = ScrollPage(1)
    /\ mounted = "loaded"
    /\ requests = <<>>
    /\ rejected = {}
    /\ emitted = 0
    /\ destroyed = FALSE
    /\ observer = "observing"
    /\ visible \in BOOLEAN
    /\ reported = "none"
    /\ queue = <<>>
    /\ scrolls = 0
    /\ entered = 0

NextScrollLoaded ==
    \/ Scroll
    \/ Sample
    \/ TriggerDeliver
    \/ \E i \in 1..MaxScrolls : LoadMoreResolve(i)
    \/ \E i \in 1..MaxScrolls : LoadMoreReject(i)
    \/ TriggerDestroy

SpecScrollLoaded == InitScrollLoaded /\ [][NextScrollLoaded]_vars

---------------------------------------------------------------------------
(* ChaptersList: the type filter and the title search. *)

\* a chapter without frontmatter.type (undefined)
NoType == "undefined"

\* titles, types and search texts of the model; a text is a sequence of
\* characters
Titles == {<<"A", "b">>, <<"b">>}
Types == {"recipe", "tip", NoType}
Searches == {<<>>, <<"a">>, <<"B">>, <<"a", "B">>}

\* String.prototype.toLowerCase, character by character
LowerChar(c) == CASE c = "A" -> "a" [] c = "B" -> "b" [] OTHER -> c
toLowerCase(text) == [i \in 1..Len(text) |-> LowerChar(text[i])]

\* String.prototype.includes / Array.prototype.includes
includes(text, part) ==
    \E k \in 0..(Len(text) - Len(part)) :
        \A i \in 1..Len(part) : text[k + i] = part[i]

\* Array.prototype.indexOf, 1-based; 0 when absent
indexOf(array, item) ==
    IF \E i \in DOMAIN array : array[i] = item
    THEN CHOOSE i \in DOMAIN array :
            /\ array[i] = item
            /\ \A j \in 1..(i - 1) : array[j] # item
    ELSE 0

\* computed chapterTypes: the types of all chapters, first occurrences only,
\* falsy ones dropped
chapterTypes ==
    LET all == [i \in 1..Len(chapters) |-> chapters[i].type]
        First(i) == indexOf(all, all[i]) = i /\ all[i] # NoType
        kept == {i \in DOMAIN all : First(i)}
        Rank(i) == Cardinality({j \in kept : j <= i})
    IN  [k \in 1..Cardinality(kept) |->
            all[CHOOSE i \in kept : Rank(i) = k]]

\* this.chapters.slice(2)
initialChapters == SubSeq(chapters, 3, Len(chapters))

\* the forEach over the first k selected types: the chapters of each type
\* appended in turn
RECURSIVE chaptersFilteredByType(_)
chaptersFilteredByType(k) ==
    IF k = 0 THEN <<>>
    ELSE LET OfType(chapter) == chapter.type = selectedChapterTypes[k]
         IN  chaptersFilteredByType(k - 1)
                \o SelectSeq(initialChapters, OfType)

\* filteredChapters comparing the title with the search text as typed
filteredChaptersSearchAsTyped ==
    LET byType == IF Len(selectedChapterTypes) > 0
                  THEN chaptersFilteredByType(Len(selectedChapterTypes))
                  ELSE initialChapters
        Found(chapter) == includes(toLowerCase(chapter.title), search)
    IN  SelectSeq(byType, Found)

\* computed filteredChapters
filteredChapters ==
    LET byType == IF Len(selectedChapterTypes) > 0
                  THEN chaptersFilteredByType(Len(selectedChapterTypes))
                  ELSE initialChapters
        Found(chapter) ==
            includes(toLowerCase(chapter.title), toLowerCase(search))
    IN  SelectSeq(byType, Found)

\* computed chaptersCount
chaptersCount == Len(filteredChapters)

\* the chapters lists of the model: every chapter has its position as id
ChapterLists ==
    {[i \in DOMAIN f |-> [id |-> i, title |-> f[i][1], type |-> f[i][2]]] :
        f \in UNION {[1..m -> Titles \X Types] : m \in 0..MaxChapters}}

InitChapters ==
    /\ IdlePagination /\ IdleList /\ IdleObserver /\ IdleLazy /\ IdleScroll
    /\ chapters \in ChapterLists
    /\ search = <<>>
    /\ selectedChapterTypes = <<>>
    /\ toggledOdd = {}

\* a toggle that pushes the type without looking whether it is selected
toggledAlwaysPushed(selected, type) == Append(selected, type)

\* the array toggleSelectedChapterType(type) leaves: the type spliced out at
\* its index when included, pushed otherwise
toggled(selected, type) ==
    IF \E i \in DOMAIN selected : selected[i] = type
    THEN RemoveAt(selected, indexOf(selected, type))
    ELSE Append(selected, type)

\* methods.toggleSelectedChapterType(type)
toggleSelectedChapterType(type) ==
    /\ selectedChapterTypes' = toggled(selectedChapterTypes, type)
    /\ toggledOdd' = IF type \in toggledOdd THEN toggledOdd \ {type}
                     ELSE toggledOdd \cup {type}
    /\ UNCHANGED <<chapters, search>>
    /\ UNCHANGED <<paginationVars, listVars, observerVars, lazyVars,
                   scrollVars>>

\* click on the BaseBadge of the i-th chapter type
ClickBadge(i) ==
    /\ i \in DOMAIN chapterTypes
    /\ toggleSelectedChapterType(chapterTypes[i])

\* the search input's v-model: the text is replaced
InputSearch(text) ==
    /\ text # search
    /\ search' = text
    /\ UNCHANGED <<chapters, selectedChapterTypes, toggledOdd>>
    /\ UNCHANGED <<paginationVars, listVars, observerVars, lazyVars,
                   scrollVars>>

NextChapters ==
    \/ \E i \in 1..MaxChapters : ClickBadge(i)
    \/ \E text \in Searches : InputSearch(text)

SpecChapters == InitChapters /\ [][NextChapters]_vars

---------------------------------------------------------------------------
(* Properties. *)

\* the contract's valid inputs: pageCount >= 1, 1 <= currentPage <= pageCount,
\* visiblePagesCount odd and >= 3
ValidInput ==
    /\ pageCount >= 1
    /\ 1 <= currentPage
    /\ currentPage <= pageCount
    /\ visiblePagesCount >= 3
    /\ visiblePagesCount % 2 = 1

Returned == outcome = "returned"
EvaluationEnded == outcome # "pending"
WholeEntries == \A i \in DOMAIN fraction : fraction[i] = 0

\* threshold = (visiblePagesCount - 1) / 2 of an odd visiblePagesCount
Threshold == (visiblePagesCount - 1) \div 2
NearStart == currentPage <= Threshold + 1
NearEnd == currentPage >= pageCount - Threshold + 1
Middle == ~NearStart /\ ~NearEnd

\* C1: for every valid input the returned sequence is strictly increasing
\* (hence without duplicates).
C1_StrictlyIncreasing ==
    (Returned /\ ValidInput) =>
        \A i \in 1..(Len(triggers) - 1) : triggers[i] < triggers[i + 1]

\* C2: for every valid input with pageCount <= visiblePagesCount the returned
\* sequence is exactly 1, 2, ..., pageCount.
C2_AllPagesWhenFew ==
    (Returned /\ ValidInput /\ pageCount <= visiblePagesCount) =>
        triggers = [i \in 1..pageCount |-> i]

\* C3: for every valid input the first element of the returned sequence is 1
\* and its last element is pageCount.
C3_FirstAndLast ==
    (Returned /\ ValidInput) =>
        /\ Len(triggers) >= 1
        /\ WholeEntries
        /\ triggers[1] = 1
        /\ triggers[Len(triggers)] = pageCount

C3_Witness ==
    /\ Returned /\ ValidInput
    /\ pageCount > visiblePagesCount
    /\ NearEnd
    /\ triggers[1] = 1
    /\ triggers[Len(triggers)] = pageCount

\* C4: every page number rendered by the list component's pagination lies in
\* 1..pageCount, for every pageCount the component holds (0 before the first
\* fetch completes, or a pageCount below visiblePagesCount).
C4_WithinCollection ==
    (mounted # "none" /\ Returned) =>
        \A i \in DOMAIN triggers : 1 <= triggers[i] /\ triggers[i] <= pageCount

\* C5: once pageCount has been loaded (and the collection is not empty),
\* 1 <= currentPage <= pageCount in every state reachable by clicks on the
\* enabled buttons and on rendered triggers, interleaved with the initial fetch.
C5_CurrentPageInRange ==
    (mounted = "loaded" /\ pageCount >= 1) =>
        (1 <= currentPage /\ currentPage <= pageCount)

\* C6: for every valid input with 1 < currentPage < pageCount, currentPage is
\* an element of the returned sequence.
C6_CurrentPageShown ==
    (Returned /\ ValidInput /\ 1 < currentPage /\ currentPage < pageCount) =>
        \E i \in DOMAIN triggers : triggers[i] = currentPage /\ fraction[i] = 0

C6_Witness ==
    /\ Returned /\ ValidInput
    /\ Middle
    /\ pageCount > visiblePagesCount
    /\ \E i \in 2..(Len(triggers) - 1) : triggers[i] = currentPage

\* C7: for every valid input the returned sequence has at most
\* visiblePagesCount entries.
C7_AtMostVisible ==
    (Returned /\ ValidInput) => Len(triggers) <= visiblePagesCount

C7_Witness ==
    /\ Returned /\ ValidInput
    /\ Middle
    /\ pageCount > visiblePagesCount
    /\ Len(triggers) = visiblePagesCount

C9_BranchesPartition ==
    (EvaluationEnded /\ ValidInput /\ pageCount >= visiblePagesCount) =>
        /\ isScenario1(currentPage, visiblePagesCount) <=> NearStart
        /\ isScenario2(currentPage, pageCount, visiblePagesCount) <=> NearEnd
        /\ ~(isScenario1(currentPage, visiblePagesCount)
             /\ isScenario2(currentPage, pageCount, visiblePagesCount))
        /\ Cardinality({b \in {"start", "end", "middle"} :
              \/ b = "start" /\ isScenario1(currentPage, visiblePagesCount)
              \/ b = "end"
                 /\ isScenario2(currentPage, pageCount, visiblePagesCount)
              \/ b = "middle"
                 /\ ~isScenario1(currentPage, visiblePagesCount)
                 /\ ~isScenario2(currentPage, pageCount, visiblePagesCount)})
           = 1

C9_Witness ==
    /\ EvaluationEnded /\ ValidInput
    /\ pageCount = visiblePagesCount
    /\ currentPage = Threshold + 2
    /\ isScenario2(currentPage, pageCount, visiblePagesCount)
    /\ ~isScenario1(currentPage, visiblePagesCount)

\* C10: for every valid input with pageCount >= visiblePagesCount and
\* currentPage <= threshold + 1 the returned sequence is
\* 1, 2, ..., visiblePagesCount - 1 followed by pageCount.
C10_NearStart ==
    (Returned /\ ValidInput /\ pageCount >= visiblePagesCount /\ NearStart) =>
        /\ WholeEntries
        /\ triggers = [i \in 1..visiblePagesCount |->
                          IF i < visiblePagesCount THEN i ELSE pageCount]

C10_Witness ==
    /\ Returned /\ ValidInput
    /\ pageCount > visiblePagesCount + 1
    /\ currentPage = Threshold + 1
    /\ triggers[visiblePagesCount - 1] = visiblePagesCount - 1
    /\ triggers[visiblePagesCount] = pageCount

\* C11: for every valid input with pageCount >= visiblePagesCount that is
\* not near the start and is near the end, the returned sequence is 1
\* followed by the visiblePagesCount - 1 consecutive integers ending at
\* pageCount.
C11_NearEnd ==
    (Returned /\ ValidInput /\ pageCount >= visiblePagesCount
       /\ ~NearStart /\ NearEnd) =>
        /\ WholeEntries
        /\ triggers = [i \in 1..visiblePagesCount |->
                          IF i = 1 THEN 1
                          ELSE pageCount - visiblePagesCount + i]

C11_Witness ==
    /\ Returned /\ ValidInput
    /\ visiblePagesCount = 5 /\ pageCount = 18 /\ currentPage = 18
    /\ triggers = <<1, 15, 16, 17, 18>>

\* C12: for every valid input in the middle case the returned sequence is 1,
\* then the visiblePagesCount - 2 consecutive integers starting at
\* currentPage - threshold + 1 (as many pages before currentPage as after
\* it), then pageCount; pageCount = 18, currentPage = 9 gives 1 8 9 10 18.
C12_Middle ==
    (Returned /\ ValidInput /\ Middle) =>
        /\ WholeEntries
        /\ triggers = [i \in 1..visiblePagesCount |->
                          IF i = 1 THEN 1
                          ELSE IF i = visiblePagesCount THEN pageCount
                          ELSE currentPage - Threshold + 1 + (i - 2)]
        /\ currentPage - triggers[2]
             = triggers[visiblePagesCount - 1] - currentPage
        /\ (visiblePagesCount = 5 /\ pageCount = 18 /\ currentPage = 9)
              => triggers = <<1, 8, 9, 10, 18>>

C12_Witness ==
    /\ Returned /\ ValidInput /\ Middle
    /\ visiblePagesCount = 5 /\ pageCount = 18 /\ currentPage = 9
    /\ triggers = <<1, 8, 9, 10, 18>>

\* C13: for every valid input with pageCount >= visiblePagesCount + 1,
\* currentPage = pageCount - threshold is not near the end and still yields
\* the sequence of currentPage = pageCount: 1 followed by the
\* visiblePagesCount - 1 consecutive integers ending at pageCount.
C13_LastMiddlePage ==
    (Returned /\ ValidInput /\ pageCount >= visiblePagesCount + 1
       /\ currentPage = pageCount - Threshold) =>
        /\ ~NearEnd
        /\ ~isScenario2(currentPage, pageCount, visiblePagesCount)
        /\ triggers = WholeParts(
              paginationTriggers(pageCount, pageCount, visiblePagesCount))
        /\ triggers = [i \in 1..visiblePagesCount |->
                          IF i = 1 THEN 1
                          ELSE pageCount - visiblePagesCount + i]
        /\ (visiblePagesCount = 5 /\ pageCount = 18) =>
              triggers = <<1, 15, 16, 17, 18>>

C13_Witness ==
    /\ Returned /\ ValidInput
    /\ visiblePagesCount = 5 /\ pageCount = 18 /\ currentPage = 16
    /\ ~NearEnd
    /\ triggers = <<1, 15, 16, 17, 18>>

\* C14: in BasePagination the "previous" button is disabled exactly when
\* currentPage = 1 and the "next" button exactly when currentPage = pageCount;
\* in every other state each button is enabled.
C14_ButtonsDisabled ==
    (mounted # "none") =>
        /\ buttons.previous <=> (currentPage = 1)
        /\ buttons.next <=> (currentPage = pageCount)

C14_Witness ==
    /\ mounted = "loaded"
    /\ pageCount >= 2
    /\ currentPage = pageCount
    /\ buttons.next
    /\ ~buttons.previous

\* C15 (as stated): pageCount is refreshed whenever a page-data fetch
\* completes: once a response has arrived, pageCount is the page count implied
\* by the latest response, also when that response answers a page change.
C15_RefreshedByEveryFetch ==
    (mounted # "none" /\ totalResults # NoResponse) =>
        pageCount = PageCountOf(totalResults)

\* C15 (amended): pageCount is set only by the step that completes the
\* initial fetch at mount, to the page count implied by that response; every
\* other step, the completion of a page-change fetch included, leaves it
\* unchanged.
C15_SetAtMountOnly ==
    [][IF mounted = "pending" /\ mounted' = "loaded"
       THEN pageCount' = PageCountOf(totalResults')
       ELSE pageCount' = pageCount]_vars

C15_Witness ==
    /\ mounted = "loaded"
    /\ requests = <<>>
    /\ totalResults # NoResponse
    /\ articles # <<>>
    /\ pageCount # PageCountOf(totalResults)

\* C17: the lazy-load directive requests the image at most once per
\* element: for any sequence of observer callbacks, each carrying one or more
\* entries, loadImage runs at most once for the bound element.
C17_LoadedAtMostOnce ==
    (inserted /\ hasImage) => loadCalls <= 1

\* C18: when IntersectionObserver is available the img's src stays unset
\* from insertion until the observer has delivered an entry with
\* isIntersecting true; callbacks whose entries are all non-intersecting
\* never set it.
C18_UnsetUntilIntersecting ==
    (hasObserver /\ entered = 0) => (src = "unset" /\ loadCalls = 0)

C18_Witness ==
    /\ inserted /\ hasObserver /\ hasImage
    /\ observer = "observing"
    /\ reported = "out" /\ queue = <<>>
    /\ scrolls = 0
    /\ entered = 0
    /\ src = "unset"

\* C19: without IntersectionObserver loadImage runs at insertion and sets
\* the img's src to its data-url with no visibility event; and in both
\* environments an element with an IMG child eventually has src = data-url,
\* provided an intersecting entry is queued for it when the observer exists.
C19_EventuallyLoaded ==
    /\ []((inserted /\ ~hasObserver) =>
            /\ loadCalls = 1 /\ entered = 0
            /\ hasImage => src = "data-url")
    /\ (~hasObserver /\ hasImage) ~> (src = "data-url")
    /\ (hasImage /\ \E i \in DOMAIN queue : queue[i]) ~> (src = "data-url")

C19_Witness ==
    /\ inserted /\ ~hasObserver /\ hasImage
    /\ scrolls = 0
    /\ loadCalls = 1
    /\ src = "data-url"

\* C16: infinite scroll loses no fetched page: once the initial fetch and
\* every loadMore request have been answered (none failed), articles contains
\* the articles of page 1 and of every page requested by loadMore.
C16_NoPageLost ==
    (mounted = "loaded" /\ requests = <<>> /\ rejected = {}) =>
        \A p \in 1..page : \A k \in 1..scrollPageSize :
            \E j \in DOMAIN articles : articles[j] = ScrollPage(p)[k]

\* C20: the Trigger emits triggerIntersected for every intersecting entry its
\* observer hands to the callback, also when several entries arrive in one
\* callback: while the component lives, as many events have been emitted as
\* intersecting entries were delivered.
C20_EmittedPerEntry ==
    (observer # "null" /\ mounted # "none" /\ ~destroyed) => emitted = entered

\* valid inputs of a direct evaluation that take the middle branch and whose
\* returned array is not strictly increasing
MiddleBreaks ==
    {a \in ArgPages \X ArgCounts \X ArgVisible :
        /\ a[2] >= 1 /\ 1 <= a[1] /\ a[1] <= a[2]
        /\ a[3] >= 3 /\ a[3] % 2 = 1
        /\ ~isScenario1(a[1], a[3])
        /\ ~isScenario2(a[1], a[2], a[3])
        /\ LET s == paginationTriggers(a[1], a[2], a[3])
           IN  \E i \in 1..(Len(s) - 1) : s[i] >= s[i + 1]}

\* C21 (as stated): some valid input (odd visiblePagesCount >= 3,
\* pageCount >= 1, 1 <= currentPage <= pageCount) reaches the middle branch
\* and gets a sequence that is not strictly increasing or has a duplicate.
C21_MiddleCanBreak ==
    EvaluationEnded => MiddleBreaks # {}

\* C21 (amended): no valid input does: every valid input that reaches the
\* middle branch has pageCount >= visiblePagesCount + 1 and gets a strictly
\* increasing sequence of whole numbers, hence one without a duplicate.
C21_MiddleIncreasing ==
    (Returned /\ ValidInput
       /\ ~isScenario1(currentPage, visiblePagesCount)
       /\ ~isScenario2(currentPage, pageCount, visiblePagesCount)) =>
        /\ pageCount >= visiblePagesCount + 1
        /\ WholeEntries
        /\ \A i \in 1..(Len(triggers) - 1) : triggers[i] < triggers[i + 1]
        /\ \A i, j \in DOMAIN triggers : triggers[i] = triggers[j] => i = j

C21_Witness ==
    /\ Returned /\ ValidInput /\ Middle
    /\ visiblePagesCount = 3 /\ pageCount = 4 /\ currentPage = 3
    /\ triggers = <<1, 3, 4>>

\* C22: pagination under overlapping page changes: for every interleaving of
\* pageChangeHandle calls and their responses arriving in any order, once no
\* request is outstanding (and none has failed) articles holds the articles of
\* the page equal to currentPage, as the latest response lists them.  Stated
\* for a currentPage within 1..pageCount.
C22_ArticlesOfCurrentPage ==
    (mounted = "loaded" /\ requests = <<>> /\ ~failed
       /\ 1 <= currentPage /\ currentPage <= pageCount) =>
        articles = PageArticles(currentPage, totalResults)

\* C23: pageChangeHandle changes currentPage synchronously before issuing
\* its request: 'next' sets it to currentPage + 1, 'previous' to
\* currentPage - 1 and any other value v to v; the request it issues asks for
\* exactly the new currentPage; pageCount (and articles) are left unchanged by
\* the call.
C23_SynchronousChange ==
    [][/\ Len(requests') = Len(requests) + 1 =>
            /\ requests' = Append(requests, currentPage')
            /\ pageCount' = pageCount
            /\ articles' = articles
       /\ pageChangeHandle("next", 0) => currentPage' = currentPage + 1
       /\ pageChangeHandle("previous", 0) => currentPage' = currentPage - 1
       /\ \A v \in PageRange :
            pageChangeHandle("default", v) => currentPage' = v]_vars

C23_Witness ==
    /\ mounted = "loaded"
    /\ pageCount >= 3
    /\ currentPage = 3
    /\ requests = <<2, 3>>
    /\ articles = PageArticles(1, totalResults)
    /\ pageCount = PageCountOf(totalResults)

\* the page an article of the paginated API belongs to
PageOf(article) == (article - 1) \div visibleItemsPerPageCount + 1

\* articles is not empty and none of its articles belongs to page p
ShowsOtherPageThan(shown, p) ==
    /\ shown # <<>>
    /\ \A j \in DOMAIN shown : PageOf(shown[j]) # p

CurrentTriggers ==
    {i \in DOMAIN triggers : triggers[i] = currentPage /\ fraction[i] = 0}

\* C25: for every valid input with pageCount >= visiblePagesCount
\* (currentPage = 1 and currentPage = pageCount included) exactly one element
\* of the returned sequence equals currentPage: exactly one rendered trigger
\* carries the 'current' class, and all v-for keys are distinct.
C25_OneCurrentTrigger ==
    (Returned /\ ValidInput /\ pageCount >= visiblePagesCount) =>
        /\ Cardinality(CurrentTriggers) = 1
        /\ \A i, j \in DOMAIN triggers :
              (triggers[i] = triggers[j] /\ fraction[i] = fraction[j])
                 => i = j

C25_Witness ==
    /\ Returned /\ ValidInput
    /\ pageCount = visiblePagesCount
    /\ currentPage = pageCount
    /\ CurrentTriggers = {visiblePagesCount}

\* the evaluation for the mirrored page, pageCount + 1 - currentPage
Mirrored == Evaluated(pageCount + 1 - currentPage, pageCount,
                      visiblePagesCount)

\* C26: mirror symmetry of paginationTriggers: for every valid input with
\* pageCount >= visiblePagesCount, the sequence for pageCount + 1 - currentPage
\* is the sequence for currentPage with every element x replaced by
\* pageCount + 1 - x and the order reversed.
C26_MirrorSymmetry ==
    (Returned /\ ValidInput /\ pageCount >= visiblePagesCount) =>
        /\ WholeEntries
        /\ Mirrored.outcome = "returned"
        /\ \A i \in DOMAIN Mirrored.fraction : Mirrored.fraction[i] = 0
        /\ Mirrored.triggers =
              Reverse([i \in DOMAIN triggers |-> pageCount + 1 - triggers[i]])

C26_Witness ==
    /\ Returned /\ ValidInput
    /\ visiblePagesCount = 5 /\ pageCount = 18 /\ currentPage = 3
    /\ triggers = <<1, 2, 3, 4, 18>>
    /\ Mirrored.triggers = <<1, 15, 16, 17, 18>>

\* C27: infinite scroll: loadMore increments page synchronously before its
\* request, so for any number of loadMore calls and any interleaving with
\* outstanding responses the k-th call requests page k + 1; no page number
\* is requested twice and none is skipped.
C27_PagesRequestedInTurn ==
    /\ [](mounted # "none" =>
            /\ page >= 1
            /\ ~destroyed => page = 1 + emitted
            /\ \A i \in DOMAIN requests : 2 <= requests[i] /\ requests[i] <= page
            /\ \A i, j \in DOMAIN requests : requests[i] = requests[j] => i = j)
    /\ [][mounted # "none" =>
            /\ Len(requests') > Len(requests) =>
                  /\ page' = page + 1
                  /\ requests' = Append(requests, page')
            /\ page' # page => Len(requests') = Len(requests) + 1]_vars

C27_Witness ==
    /\ mounted = "pending"
    /\ emitted = 2
    /\ page = 3
    /\ requests = <<2, 3>>

\* the articles of pages 1..n in page order
RECURSIVE PagesUpTo(_)
PagesUpTo(n) == IF n < 1 THEN <<>> ELSE PagesUpTo(n - 1) \o ScrollPage(n)

\* C28: infinite scroll: for every interleaving of loadMore calls and
\* responses arriving in any order, once all responses have arrived (none
\* failed) articles lists the fetched pages in increasing page order, each
\* page's articles exactly once.
C28_PagesInOrder ==
    (mounted = "loaded" /\ requests = <<>> /\ rejected = {}) =>
        articles = PagesUpTo(page)

\* the set of the elements of a sequence
Range(s) == {s[i] : i \in DOMAIN s}

\* C29: ChaptersList type filter: after any sequence of
\* toggleSelectedChapterType calls selectedChapterTypes contains no duplicate,
\* a type is in it exactly when it has been toggled an odd number of times,
\* and toggling the same type twice in a row restores the previous set of
\* selected types.
C29_ToggleParity ==
    /\ \A i, j \in DOMAIN selectedChapterTypes :
          selectedChapterTypes[i] = selectedChapterTypes[j] => i = j
    /\ Range(selectedChapterTypes) = toggledOdd
    /\ \A k \in DOMAIN chapterTypes :
          Range(toggled(toggled(selectedChapterTypes, chapterTypes[k]),
                        chapterTypes[k]))
             = Range(selectedChapterTypes)

C29_Witness ==
    /\ chapterTypes = <<"recipe", "tip">>
    /\ selectedChapterTypes = <<"tip", "recipe">>
    /\ toggledOdd = {"recipe", "tip"}

\* two characters that are the same letter, whatever their case
SameLetter(c, d) ==
    \/ c = d
    \/ {c, d} = {"a", "A"}
    \/ {c, d} = {"b", "B"}

\* text contains part, case-insensitively
ContainsIgnoringCase(text, part) ==
    \E k \in 0..(Len(text) - Len(part)) :
        \A i \in 1..Len(part) : SameLetter(text[k + i], part[i])

\* the positions of the chapters the filter is to show
ExpectedChapters ==
    {i \in 3..Len(chapters) :
        /\ ContainsIgnoringCase(chapters[i].title, search)
        /\ selectedChapterTypes # <<>> =>
              chapters[i].type \in Range(selectedChapterTypes)}

\* C30: filteredChapters, for any chapters list, any selection reachable by
\* toggling and any search text, contains exactly the chapters after the first
\* two whose title contains the search text case-insensitively and, when at
\* least one type is selected, whose frontmatter.type is selected; each such
\* chapter appears exactly once, and chaptersCount is their number.
C30_FilteredChapters ==
    /\ \A i \in ExpectedChapters :
          Cardinality({j \in DOMAIN filteredChapters :
                          filteredChapters[j] = chapters[i]}) = 1
    /\ \A j \in DOMAIN filteredChapters :
          \E i \in ExpectedChapters : filteredChapters[j] = chapters[i]
    /\ chaptersCount = Cardinality(ExpectedChapters)

C30_Witness ==
    /\ Len(chapters) = 4
    /\ chapters[3].type = "recipe" /\ chapters[3].title = <<"A", "b">>
    /\ chapters[4].type = "tip" /\ chapters[4].title = <<"b">>
    /\ selectedChapterTypes = <<"tip", "recipe">>
    /\ search = <<"a", "B">>
    /\ filteredChapters = <<chapters[3]>>
    /\ chaptersCount = 1

====
